---- MODULE Spec2Model ----
(***************************************************************************)
(* Model of the DSPy customer-support service:                             *)
(*   - SmartSupportSystem.forward (src/src/modules/support_system.py), the *)
(*     four-stage pipeline Classify -> Retrieve -> Respond -> Evaluate,    *)
(*     run in an executor thread, one remote LLM call per stage;           *)
(*   - the FastAPI handlers of src/production/api.py: POST /process-ticket *)
(*     (process_support_ticket) and POST /process-batch                    *)
(*     (process_ticket_batch with its inner process_single), running as    *)
(*     coroutines on one event loop and sharing the global ticket_counter. *)
(*                                                                         *)
(* A step of the model is either one uninterrupted run of a coroutine      *)
(* between two awaits (the event loop is single-threaded) or one remote    *)
(* call of an executor thread returning or raising.                        *)
(*                                                                         *)
(* Not modelled: wall-clock values (processing_time_ms, timestamp), the    *)
(* free text of subjects, messages and responses (one token each), and     *)
(* logging.                                                                *)
(***************************************************************************)
EXTENDS Integers, Sequences, FiniteSets, TLC

\* ---------------------------------------------------------------- bounds
\* Number of HTTP requests (single or batch) the model lets arrive.
MaxRequests == 2

\* Total number of tickets over all accepted requests.
MaxTickets == 3

\* The batch-size ceiling of process_ticket_batch.  api.py:125 compares
\* len(batch.tickets) with the literal 50; the model checks the same guard at
\* this scaled ceiling so that batches on both sides of it are explored.
BatchSizeLimit == 3

\* The initial value of the per-batch semaphore.  api.py:131 creates
\* asyncio.Semaphore(10); the model uses this scaled value so that an
\* accepted batch can hold more tickets than there are slots.
SemaphoreSlots == 2

Requests == 1..MaxRequests

\* ------------------------------------------------------------ value model
\* Python's None.
NoValue == [type |-> "None"]

\* The Literal[...] sets of the TicketClassifier signature.
Categories == {"Technical", "Billing", "Sales", "Feature_Request"}

Priorities == {"Critical", "High", "Medium", "Low"}

ResponseTypes ==
    {"Troubleshooting", "Account_Review", "Information", "Product_Feedback",
     "Account_Recovery"}

\* The four stages of forward, in the order of its statements.
Stages == <<"classify", "retrieve", "respond", "evaluate">>

StageSet == {Stages[k] : k \in 1..Len(Stages)}

StageIndex(s) == CHOOSE k \in 1..Len(Stages) : Stages[k] = s

\* Variant of NextPc: after the last stage forward starts over.
NextPc_Restart(s) ==
    IF StageIndex(s) < Len(Stages) THEN Stages[StageIndex(s) + 1] ELSE Stages[1]

\* The statement forward executes after stage s has returned: the next
\* stage's call, or the construction of the Prediction after the last one.
NextPc(s) ==
    IF StageIndex(s) < Len(Stages) THEN Stages[StageIndex(s) + 1] ELSE "returned"

\* --------------------------------------------------------------- inputs
\* SupportTicket bodies.  subject, message and customer_email are one token
\* each.  priority_override is an Optional[str]: <<>> is None and <<s>> is
\* the string s; the model supplies None, the empty string, a value of the
\* enumeration and a string outside it.
Overrides == {<<>>, <<"">>, <<"Critical">>, <<"Urgent">>}

\* Python truth value of an Optional[str]: None and "" are false.
Truthy(o) == o # <<>> /\ o[1] # ""

SupportTicket(o) ==
    [subject |-> "subj", message |-> "msg", customer_email |-> "a@b.c",
     priority_override |-> o]

TicketBodies == {SupportTicket(o) : o \in Overrides}

\* The override of the k-th ticket of a sample batch: the four overrides in
\* turn, so that the tickets of a batch differ from their neighbours.
OverrideAt(k) ==
    CASE k % 4 = 1 -> <<>>
      [] k % 4 = 2 -> <<"Urgent">>
      [] k % 4 = 3 -> <<"">>
      [] k % 4 = 0 -> <<"Critical">>

SampleBatch(n) == [k \in 1..n |-> SupportTicket(OverrideAt(k))]

\* BatchTickets payloads: one list of every length up to one ticket above
\* the ceiling.
Batches == {SampleBatch(n) : n \in 0..(BatchSizeLimit + 1)}

\* Raw outputs the language model may produce for each stage.  The second
\* classifier output carries a category outside the Literal set.
RawOutputs(stage) ==
    CASE stage = "classify" ->
           {[category |-> "Technical", priority |-> "High",
             response_type |-> "Troubleshooting", reasoning |-> "why"],
            [category |-> "Other", priority |-> "Medium",
             response_type |-> "Information", reasoning |-> "why"]}
      [] stage = "retrieve" ->
           {[relevant_solution |-> "sol", escalation_needed |-> TRUE]}
      [] stage = "respond" ->
           {[response |-> "resp", confidence |-> 9]}
      [] stage = "evaluate" ->
           {[quality_score |-> 8, is_helpful |-> TRUE, is_professional |-> TRUE,
             suggestions |-> ""]}

\* quality_score and confidence are floats in [0,1]; the model holds them in
\* tenths (8 is 0.8).

\* Variant of Conforms: the output fields are plain strings, nothing is checked.
Conforms_Unchecked(stage, raw) == TRUE

\* The typed output fields of a signature accept only their declared values:
\* a raw output violating a Literal makes the stage raise.
Conforms(stage, raw) ==
    IF stage = "classify"
    THEN /\ raw.category \in Categories
         /\ raw.priority \in Priorities
         /\ raw.response_type \in ResponseTypes
    ELSE TRUE

\* ------------------------------------------------------------ ticket ids
RECURSIVE Digits(_)
Digits(n) == IF n < 10 THEN <<n>> ELSE Append(Digits(n \div 10), n % 10)

RECURSIVE ZeroPad(_, _)
ZeroPad(s, w) == IF Len(s) >= w THEN s ELSE ZeroPad(<<0>> \o s, w)

\* f"API{ticket_counter:06d}": the prefix and the decimal digits of the
\* counter, left-padded with zeros to six digits.
FormatTicketId(n) == <<"API">> \o ZeroPad(Digits(n), 6)

\* Variant of IncrementCounter: the counter is incremented twice.
IncrementCounter_Twice(c) == c + 2

\* Variant of IncrementCounter: every second increment is lost.
IncrementCounter_Lost(c) == IF c % 2 = 1 THEN c ELSE c + 1

\* ticket_counter += 1
IncrementCounter(c) == c + 1

\* ----------------------------------------------------------------- state
\* Requests are numbered in their order of arrival.
Arrives(reqs, r) == reqs[r].kind = "none" /\ \A q \in 1..(r - 1) : reqs[q].kind # "none"

VARIABLES
    ticket_counter, \* the module-level counter of api.py
    requests,       \* per request: kind, state, submitted tickets, HTTP response
    semaphore,      \* per batch request: the value of its asyncio.Semaphore
    tasks,          \* per request: one record per ticket being processed
    llm_calls,      \* number of remote LLM calls issued so far (history)
    finish_order,   \* per batch request: positions in order of completion (history)
    info_reply,     \* last reply of /feedback, /health, /metrics or / (history)
    demo,           \* the run of full_system_demo of examples/demo.py
    bench           \* the run of run_benchmark of scripts/benchmark.py

vars == <<ticket_counter, requests, semaphore, tasks, llm_calls,
          finish_order, info_reply, demo, bench>>

\* The state of the API process; the scripts' runs are separate processes.
apiVars == <<ticket_counter, requests, semaphore, tasks, llm_calls, finish_order>>

\* A ticket's coroutine before it has entered process_support_ticket.
NewTask(ticket) ==
    [pc |-> "pending", ticket |-> ticket, ticket_id |-> <<>>,
     classification |-> NoValue, knowledge |-> NoValue,
     response |-> NoValue, quality |-> NoValue,
     calls |-> <<>>, completed |-> <<>>, error |-> NoValue,
     result |-> NoValue]

\* The API process after its start-up.
InitApi ==
    /\ ticket_counter = 0
    /\ requests = [r \in Requests |->
                     [kind |-> "none", state |-> "idle", tickets |-> <<>>,
                      response |-> NoValue]]
    /\ semaphore = [r \in Requests |-> 0]
    /\ tasks = [r \in Requests |-> <<>>]
    /\ llm_calls = 0
    /\ finish_order = [r \in Requests |-> <<>>]
    /\ info_reply = NoValue

Init ==
    /\ InitApi
    /\ demo = NoValue
    /\ bench = NoValue

RECURSIVE SumLen(_, _)
SumLen(f, S) ==
    IF S = {} THEN 0
    ELSE LET r == CHOOSE x \in S : TRUE IN Len(f[r]) + SumLen(f, S \ {r})

\* Tickets of all accepted requests.
TotalTasks == SumLen(tasks, Requests)

\* ------------------------------------------------- SmartSupportSystem.forward
\* Variant of StageArgs: the evaluator is also told the category.
StageArgs_EvaluatorSeesCategory(stage, t) ==
    CASE stage = "classify" ->
           [subject |-> t.ticket.subject, message |-> t.ticket.message]
      [] stage = "retrieve" ->
           [category |-> t.classification.category,
            issue_description |-> <<t.ticket.subject, "\n", t.ticket.message>>]
      [] stage = "respond" ->
           [customer_message |-> t.ticket.message,
            issue_category |-> t.classification.category,
            priority_level |-> t.classification.priority,
            solution_info |-> t.knowledge.relevant_solution,
            escalation_needed |-> t.knowledge.escalation_needed]
      [] stage = "evaluate" ->
           [original_message |-> t.ticket.message,
            generated_response |-> t.response.response,
            issue_category |-> t.classification.category]

\* The keyword arguments forward passes to a stage.
StageArgs(stage, t) ==
    CASE stage = "classify" ->
           [subject |-> t.ticket.subject, message |-> t.ticket.message]
      [] stage = "retrieve" ->
           [category |-> t.classification.category,
            issue_description |-> <<t.ticket.subject, "\n", t.ticket.message>>]
      [] stage = "respond" ->
           [customer_message |-> t.ticket.message,
            issue_category |-> t.classification.category,
            priority_level |-> t.classification.priority,
            solution_info |-> t.knowledge.relevant_solution,
            escalation_needed |-> t.knowledge.escalation_needed]
      [] stage = "evaluate" ->
           [original_message |-> t.ticket.message,
            generated_response |-> t.response.response]

\* forward calls a stage: one remote LLM call goes out.
Invoke(t, stage) ==
    [t EXCEPT !.pc = stage,
              !.calls = Append(@, [stage |-> stage, args |-> StageArgs(stage, t)])]

\* forward binds a stage's result to its local variable.
StoreOutput(t, stage, out) ==
    CASE stage = "classify" -> [t EXCEPT !.classification = out]
      [] stage = "retrieve" -> [t EXCEPT !.knowledge = out]
      [] stage = "respond"  -> [t EXCEPT !.response = out]
      [] stage = "evaluate" -> [t EXCEPT !.quality = out]

\* A stage has returned `out`: forward continues with its next statement.
AfterStage(t, stage, out) ==
    LET t1 == [StoreOutput(t, stage, out) EXCEPT !.completed = Append(@, stage)]
    IN  IF NextPc(stage) \in StageSet
        THEN Invoke(t1, NextPc(stage))
        ELSE [t1 EXCEPT !.pc = "returned"]

\* The dspy.Prediction forward returns.
Prediction(t) ==
    [category |-> t.classification.category,
     priority |-> t.classification.priority,
     response_type |-> t.classification.response_type,
     classification_reasoning |-> t.classification.reasoning,
     solution_info |-> t.knowledge.relevant_solution,
     escalation_needed |-> t.knowledge.escalation_needed,
     response |-> t.response.response,
     response_confidence |-> t.response.confidence,
     quality_score |-> t.quality.quality_score,
     is_helpful |-> t.quality.is_helpful,
     is_professional |-> t.quality.is_professional,
     improvement_suggestions |-> t.quality.suggestions]

\* ------------------------------------------------- process_support_ticket
\* The synchronous head of process_support_ticket: the counter has been
\* incremented to c, the id is formed and the pipeline is handed to the
\* executor, whose thread enters forward and issues the first stage's call
\* (the hand-over is not a step of its own).
EnterTicket(t, c) ==
    Invoke([t EXCEPT !.ticket_id = FormatTicketId(c)], Stages[1])

\* Variant of FinalPriority: tests the override against None instead of its
\* truth value.
FinalPriority_IsNotNone(override, classified) ==
    IF override # <<>> THEN override[1] ELSE classified

\* final_priority = ticket.priority_override or result.priority
FinalPriority(override, classified) ==
    IF Truthy(override) THEN override[1] ELSE classified

\* The TicketResponse built from the pipeline's result.
TicketResponse(t) ==
    LET result == Prediction(t)
    IN  [type |-> "TicketResponse",
         ticket_id |-> t.ticket_id,
         category |-> result.category,
         priority |-> FinalPriority(t.ticket.priority_override, result.priority),
         response_type |-> result.response_type,
         generated_response |-> result.response,
         quality_score |-> result.quality_score,
         escalation_needed |-> result.escalation_needed]

\* raise HTTPException(status_code=500, detail=f"Processing failed: {str(e)}")
ProcessingFailed(t) ==
    [type |-> "HTTPException", status_code |-> 500,
     detail |-> <<"Processing failed: ", t.error>>]

\* Variant of TicketOutcome: a failed pipeline is answered with defaults.
TicketOutcome_Defaults(t) ==
    IF t.pc = "returned" THEN TicketResponse(t)
    ELSE [type |-> "TicketResponse", ticket_id |-> t.ticket_id,
          category |-> "Unknown", priority |-> "Medium",
          response_type |-> "Information", generated_response |-> "",
          quality_score |-> 0, escalation_needed |-> FALSE]

\* What process_support_ticket returns or raises once the executor is done.
TicketOutcome(t) ==
    IF t.pc = "returned" THEN TicketResponse(t) ELSE ProcessingFailed(t)

\* isinstance(x, Exception)
IsException(x) == x.type = "HTTPException"

\* str(e) of an HTTPException: "<status_code>: <detail>".
StrException(e) == <<e.status_code, ": ", e.detail>>

\* ---------------------------------------------------- process_ticket_batch
\* Variant of BatchTooLarge: off by one.
BatchTooLarge_AtLimit(batch) == Len(batch) >= BatchSizeLimit

\* len(batch.tickets) > 50, at the scaled ceiling.
BatchTooLarge(batch) == Len(batch) > BatchSizeLimit

\* Variant of SemaphoreOf: one module-level semaphore serves every batch.
SemaphoreOf_ModuleLevel(r) == 1

\* The semaphore a batch request works with: the local variable of its own
\* invocation of process_ticket_batch.
SemaphoreOf(r) == r

\* Variant of CanAcquire: the limiter never blocks.
CanAcquire_Always(value) == TRUE

\* The semaphore lets a coroutine in while its value is positive.
CanAcquire(value) == value > 0

\* Variant of ReleaseSlot: the slot is given back on the success path only.
ReleaseSlot_OnSuccessOnly(value, failed) == IF failed THEN value ELSE value + 1

\* `async with semaphore` exits: the slot is given back, whether the block
\* ended normally or in the handler of its except clause.
ReleaseSlot(value, failed) == value + 1

\* Variant of ProcessSingleResult: the failure dict holds the error only.
ProcessSingleResult_ErrorOnly(t) ==
    LET outcome == TicketOutcome(t)
    IN  IF IsException(outcome)
        THEN [type |-> "dict", error |-> StrException(outcome)]
        ELSE outcome

\* process_single: an exception of process_support_ticket becomes a dict.
ProcessSingleResult(t) ==
    LET outcome == TicketOutcome(t)
    IN  IF IsException(outcome)
        THEN [type |-> "dict", error |-> StrException(outcome), ticket |-> t.ticket]
        ELSE outcome

\* "error" in r: key membership for a dict; a pydantic model iterates over
\* its (name, value) pairs, none of which equals the string.
HasErrorKey(r) == r.type = "dict" /\ "error" \in DOMAIN r

\* Variant of IsSuccessful: only exceptions are excluded.
IsSuccessful_NoKeyTest(r) == ~IsException(r)

\* Variant of IsFailed: only exceptions are counted.
IsFailed_NoKeyTest(r) == IsException(r)

\* The comprehension of line 146.
IsSuccessful(r) == ~IsException(r) /\ ~HasErrorKey(r)

\* The comprehension of line 147.
IsFailed(r) == IsException(r) \/ HasErrorKey(r)

\* Variant of Gather: the results come in the opposite order.
Gather_Reversed(ts) == [i \in 1..Len(ts) |-> ts[Len(ts) + 1 - i].result]

\* asyncio.gather: the tasks' results in the order of the tasks.
Gather(ts) == [i \in 1..Len(ts) |-> ts[i].result]

BatchResponse(ts) ==
    LET results == Gather(ts)
        successful == SelectSeq(results, IsSuccessful)
        failed == SelectSeq(results, IsFailed)
    IN  [status_code |-> 200,
         body |-> [total_tickets |-> Len(ts),
                   successful |-> Len(successful),
                   failed |-> Len(failed),
                   results |-> successful,
                   errors |-> failed]]

\* ---------------------------------------------------------------- actions
\* POST /process-ticket arrives: the handler runs up to its await.
SubmitTicket(r, ticket) ==
    /\ Arrives(requests, r)
    /\ TotalTasks + 1 <= MaxTickets
    /\ ticket_counter' = IncrementCounter(ticket_counter)
    /\ requests' = [requests EXCEPT ![r] =
                      [@ EXCEPT !.kind = "single", !.state = "running",
                                !.tickets = <<ticket>>]]
    /\ tasks' = [tasks EXCEPT ![r] = <<EnterTicket(NewTask(ticket), ticket_counter')>>]
    /\ llm_calls' = llm_calls + 1
    /\ UNCHANGED semaphore
    /\ UNCHANGED <<finish_order, info_reply, demo, bench>>

\* POST /process-batch arrives with too many tickets: HTTP 400.
RejectBatch(r, batch) ==
    /\ Arrives(requests, r)
    /\ BatchTooLarge(batch)
    /\ requests' = [requests EXCEPT ![r] =
                      [kind |-> "batch", state |-> "done", tickets |-> batch,
                       response |-> [status_code |-> 400,
                                     body |-> [detail |-> "Batch size limited"]]]]
    /\ UNCHANGED <<ticket_counter, semaphore, tasks, llm_calls>>
    /\ UNCHANGED <<finish_order, info_reply, demo, bench>>

\* POST /process-batch arrives: the semaphore and one coroutine per ticket
\* are created, and the handler awaits gather.
AcceptBatch(r, batch) ==
    /\ Arrives(requests, r)
    /\ ~BatchTooLarge(batch)
    /\ TotalTasks + Len(batch) <= MaxTickets
    /\ requests' = [requests EXCEPT ![r] =
                      [@ EXCEPT !.kind = "batch", !.state = "running",
                                !.tickets = batch]]
    /\ semaphore' = [semaphore EXCEPT ![SemaphoreOf(r)] = SemaphoreSlots]
    /\ tasks' = [tasks EXCEPT ![r] = [i \in 1..Len(batch) |-> NewTask(batch[i])]]
    /\ UNCHANGED <<ticket_counter, llm_calls>>
    /\ UNCHANGED <<finish_order, info_reply, demo, bench>>

\* process_single of ticket i of batch r passes `async with semaphore` and
\* runs process_support_ticket up to its await.  Which of the pending
\* coroutines passes next is left open (it depends on the event loop's
\* queue and on the wake-up order of the semaphore's waiters).
StartBatchTicket(r, i) ==
    /\ requests[r].kind = "batch"
    /\ i \in 1..Len(tasks[r])
    /\ tasks[r][i].pc = "pending"
    /\ CanAcquire(semaphore[SemaphoreOf(r)])
    /\ semaphore' = [semaphore EXCEPT ![SemaphoreOf(r)] = @ - 1]
    /\ ticket_counter' = IncrementCounter(ticket_counter)
    /\ tasks' = [tasks EXCEPT ![r][i] = EnterTicket(@, ticket_counter')]
    /\ llm_calls' = llm_calls + 1
    /\ UNCHANGED requests
    /\ UNCHANGED <<finish_order, info_reply, demo, bench>>

\* The remote call of the current stage returns a conforming output.
StageReturn(r, i, raw) ==
    /\ i \in 1..Len(tasks[r])
    /\ tasks[r][i].pc \in StageSet
    /\ raw \in RawOutputs(tasks[r][i].pc)
    /\ Conforms(tasks[r][i].pc, raw)
    /\ tasks' = [tasks EXCEPT ![r][i] = AfterStage(@, @.pc, raw)]
    /\ llm_calls' = llm_calls + Len(tasks'[r][i].calls) - Len(tasks[r][i].calls)
    /\ UNCHANGED <<ticket_counter, requests, semaphore>>
    /\ UNCHANGED <<finish_order, info_reply, demo, bench>>

\* The current stage raises: the remote call failed (UpstreamError) or its
\* output does not conform to the signature (SchemaError).  forward has no
\* handler, so the exception leaves it.
StageRaise(r, i, kind) ==
    /\ i \in 1..Len(tasks[r])
    /\ tasks[r][i].pc \in StageSet
    /\ \/ kind = "UpstreamError"
       \/ /\ kind = "SchemaError"
          /\ \E raw \in RawOutputs(tasks[r][i].pc) : ~Conforms(tasks[r][i].pc, raw)
    /\ tasks' = [tasks EXCEPT ![r][i] =
                   [@ EXCEPT !.pc = "raised",
                             !.error = [kind |-> kind, stage |-> tasks[r][i].pc]]]
    /\ UNCHANGED <<ticket_counter, requests, semaphore, llm_calls>>
    /\ UNCHANGED <<finish_order, info_reply, demo, bench>>

\* POST /process-ticket resumes after its await and answers.
TicketRespond(r) ==
    /\ requests[r].kind = "single"
    /\ requests[r].state = "running"
    /\ tasks[r][1].pc \in {"returned", "raised"}
    /\ LET outcome == TicketOutcome(tasks[r][1])
       IN  /\ tasks' = [tasks EXCEPT ![r][1] = [@ EXCEPT !.pc = "done", !.result = outcome]]
           /\ requests' = [requests EXCEPT ![r] =
                [@ EXCEPT !.state = "done",
                          !.response =
                             IF IsException(outcome)
                             THEN [status_code |-> outcome.status_code,
                                   body |-> [detail |-> outcome.detail]]
                             ELSE [status_code |-> 200, body |-> outcome]]]
    /\ UNCHANGED <<ticket_counter, semaphore, llm_calls>>
    /\ UNCHANGED <<finish_order, info_reply, demo, bench>>

\* process_single of ticket i resumes: process_support_ticket returns or
\* raises, the result is formed and the semaphore is released.
FinishBatchTicket(r, i) ==
    /\ requests[r].kind = "batch"
    /\ i \in 1..Len(tasks[r])
    /\ tasks[r][i].pc \in {"returned", "raised"}
    /\ tasks' = [tasks EXCEPT ![r][i] =
                   [@ EXCEPT !.pc = "done", !.result = ProcessSingleResult(tasks[r][i])]]
    /\ semaphore' = [semaphore EXCEPT ![SemaphoreOf(r)] =
                                          ReleaseSlot(@, tasks[r][i].pc = "raised")]
    /\ UNCHANGED <<ticket_counter, requests, llm_calls>>
    /\ finish_order' = [finish_order EXCEPT ![r] = Append(@, i)]
    /\ UNCHANGED <<info_reply, demo, bench>>

\* gather has every result: process_ticket_batch builds its response.
BatchRespond(r) ==
    /\ requests[r].kind = "batch"
    /\ requests[r].state = "running"
    /\ \A i \in 1..Len(tasks[r]) : tasks[r][i].pc = "done"
    /\ requests' = [requests EXCEPT ![r] =
                      [@ EXCEPT !.state = "done", !.response = BatchResponse(tasks[r])]]
    /\ UNCHANGED <<ticket_counter, semaphore, tasks, llm_calls>>
    /\ UNCHANGED <<finish_order, info_reply, demo, bench>>

Next ==
    \/ \E r \in Requests, ticket \in TicketBodies : SubmitTicket(r, ticket)
    \/ \E r \in Requests, batch \in Batches : RejectBatch(r, batch)
    \/ \E r \in Requests, batch \in Batches : AcceptBatch(r, batch)
    \/ \E r \in Requests, i \in 1..MaxTickets : StartBatchTicket(r, i)
    \/ \E r \in Requests, i \in 1..MaxTickets :
          \E raw \in UNION {RawOutputs(s) : s \in StageSet} : StageReturn(r, i, raw)
    \/ \E r \in Requests, i \in 1..MaxTickets :
          \E kind \in {"UpstreamError", "SchemaError"} : StageRaise(r, i, kind)
    \/ \E r \in Requests : TicketRespond(r)
    \/ \E r \in Requests, i \in 1..MaxTickets : FinishBatchTicket(r, i)
    \/ \E r \in Requests : BatchRespond(r)

Spec == Init /\ [][Next]_vars

\* ------------------------------------------------------------- properties
\* Every ticket of every accepted request, as <<request, position>>.
TaskRefs == {x \in Requests \X (1..MaxTickets) : x[2] <= Len(tasks[x[1]])}

Task(x) == tasks[x[1]][x[2]]

\* The stages a ticket's pipeline has invoked, in the order of invocation.
CalledStages(t) == [k \in 1..Len(t.calls) |-> t.calls[k].stage]

\* The ticket's pipeline has raised.
Failed(t) == t.error # NoValue

\* The ticket is inside the pipeline: process_support_ticket has been
\* entered and has not yet returned or raised to its caller.
InFlight(t) == t.pc \in StageSet \cup {"returned", "raised"}

\* process_support_ticket has returned a TicketResponse for the ticket.
Answered(t) == t.pc = "done" /\ t.result.type = "TicketResponse"

\* An accepted batch whose response has been sent.
BatchDone(r) ==
    /\ requests[r].kind = "batch"
    /\ requests[r].state = "done"
    /\ requests[r].response.status_code = 200

\* A batch answered with HTTP 400.
BatchRejected(r) ==
    /\ requests[r].kind = "batch"
    /\ requests[r].state = "done"
    /\ requests[r].response.status_code = 400

FailedPositions(r) == {i \in 1..Len(tasks[r]) : Failed(tasks[r][i])}

InPipeline(r) == Cardinality({i \in 1..Len(tasks[r]) : InFlight(tasks[r][i])})

\* C1: in every run of forward the stages are invoked in the order Classify,
\* Retrieve, Respond, Evaluate; a stage is invoked only after the previous
\* one has completed; no stage is invoked twice; a run that returns has
\* invoked and completed each stage exactly once.
C1_StagesInOrderOnce ==
    \A x \in TaskRefs :
        LET t == Task(x)
        IN  /\ Len(t.calls) <= Len(Stages)
            /\ \A k \in 1..Len(t.calls) : t.calls[k].stage = Stages[k]
            /\ \A k \in 1..Len(t.completed) : t.completed[k] = Stages[k]
            /\ Len(t.completed) <= Len(t.calls)
            /\ Len(t.calls) <= Len(t.completed) + 1
            /\ (t.pc = "returned" \/ Answered(t)) =>
                  /\ CalledStages(t) = Stages
                  /\ t.completed = Stages

\* A run of forward has returned after its four calls while another
\* ticket's run is between two stages.
C1_Witness ==
    \E x, y \in TaskRefs :
        /\ x # y
        /\ Task(x).pc = "returned"
        /\ Len(Task(x).calls) = 4
        /\ Task(y).pc = "respond"

\* C2: once a stage of a ticket has raised, the stage that raised is the
\* last one invoked for the ticket and was invoked once, the ticket gets no
\* TicketResponse, and POST /process-ticket answers with status 500 and a
\* body that holds only the error detail.
C2_AbortOnRaise ==
    /\ \A x \in TaskRefs :
          LET t == Task(x)
          IN  Failed(t) =>
                /\ t.pc \in {"raised", "done"}
                /\ Len(t.calls) = StageIndex(t.error.stage)
                /\ CalledStages(t) = SubSeq(Stages, 1, StageIndex(t.error.stage))
                /\ t.completed = SubSeq(Stages, 1, StageIndex(t.error.stage) - 1)
                /\ t.pc = "done" => t.result.type # "TicketResponse"
    /\ \A r \in Requests :
          (/\ requests[r].kind = "single"
           /\ requests[r].state = "done"
           /\ Failed(tasks[r][1])) =>
              /\ requests[r].response.status_code = 500
              /\ DOMAIN requests[r].response.body = {"detail"}
              /\ requests[r].response.body.detail = <<"Processing failed: ", tasks[r][1].error>>

\* POST /process-ticket has answered 500 for a ticket whose third stage
\* raised after two stages had completed.
C2_Witness ==
    \E r \in Requests :
        /\ requests[r].kind = "single"
        /\ requests[r].state = "done"
        /\ requests[r].response.status_code = 500
        /\ tasks[r][1].error.stage = "respond"
        /\ tasks[r][1].completed = <<"classify", "retrieve">>

\* C3: an answered batch in which exactly one ticket's pipeline raised
\* reports N-1 successes and 1 failure, and every other ticket has run its
\* four stages and has its TicketResponse among the results.
C3_OneFailureIsolated ==
    \A r \in Requests :
        (BatchDone(r) /\ Cardinality(FailedPositions(r)) = 1) =>
            LET ts == tasks[r]
                body == requests[r].response.body
            IN  /\ body.successful = Len(ts) - 1
                /\ body.failed = 1
                /\ Len(body.results) = Len(ts) - 1
                /\ Len(body.errors) = 1
                /\ \A i \in (1..Len(ts)) \ FailedPositions(r) :
                      /\ Answered(ts[i])
                      /\ CalledStages(ts[i]) = Stages
                      /\ \E k \in 1..Len(body.results) : body.results[k] = ts[i].result

\* A batch of three tickets has been answered; only its second ticket failed.
C3_Witness ==
    \E r \in Requests :
        /\ BatchDone(r)
        /\ Len(tasks[r]) = 3
        /\ FailedPositions(r) = {2}

\* C4 (state part): a batch is answered with HTTP 400 exactly if it holds
\* more tickets than the ceiling, and no ticket of a rejected batch is ever
\* processed.
C4_RejectedIffOversize ==
    \A r \in Requests :
        requests[r].kind = "batch" =>
            /\ BatchRejected(r) <=> Len(requests[r].tickets) > BatchSizeLimit
            /\ BatchRejected(r) => tasks[r] = <<>>

\* C4 (step part): the step that receives an oversize batch changes neither
\* the ticket counter nor the number of remote calls, nor any ticket or
\* semaphore.
C4_RejectionStep ==
    (\E r \in Requests :
        /\ requests[r].kind = "none"
        /\ requests'[r].kind = "batch"
        /\ Len(requests'[r].tickets) > BatchSizeLimit)
    => /\ ticket_counter' = ticket_counter
       /\ llm_calls' = llm_calls
       /\ tasks' = tasks
       /\ semaphore' = semaphore

\* C4: a batch call is rejected if and only if it holds more tickets than
\* the ceiling, and a rejected batch does no work: no remote call, no ticket
\* id, the ticket counter unchanged.  Batches up to the ceiling are accepted.
C4_OversizeRejectedWithoutWork ==
    []C4_RejectedIffOversize /\ [][C4_RejectionStep]_vars

\* One batch of exactly the ceiling has been accepted and has tickets in
\* the pipeline, and a batch of one ticket more has been rejected.
C4_Witness ==
    \E r, q \in Requests :
        /\ BatchRejected(r)
        /\ Len(requests[r].tickets) = BatchSizeLimit + 1
        /\ requests[q].kind = "batch"
        /\ Len(tasks[q]) = BatchSizeLimit
        /\ InPipeline(q) > 0

\* C5: at no moment are more tickets of one batch inside the pipeline than
\* the semaphore has slots.
C5_PipelineBoundedBySlots ==
    \A r \in Requests :
        requests[r].kind = "batch" =>
            /\ InPipeline(r) <= SemaphoreSlots
            /\ semaphore[r] >= 0

\* Every slot of a batch is taken and another of its tickets is still
\* waiting for a slot.
C5_Witness ==
    \E r \in Requests :
        /\ InPipeline(r) = SemaphoreSlots
        /\ semaphore[r] = 0
        /\ \E i \in 1..Len(tasks[r]) : tasks[r][i].pc = "pending"

\* C6: no two tickets, of the same or of different requests, ever hold the
\* same ticket id.
C6_UniqueTicketIds ==
    \A x, y \in TaskRefs :
        (x # y /\ Task(x).ticket_id # <<>> /\ Task(y).ticket_id # <<>>) =>
            Task(x).ticket_id # Task(y).ticket_id

\* A single-ticket request took its id between two tickets of a batch that
\* was running at the same time.
C6_Witness ==
    \E r, q \in Requests :
        /\ requests[r].kind = "batch"
        /\ requests[q].kind = "single"
        /\ tasks[q][1].ticket_id = FormatTicketId(2)
        /\ \E i, j \in 1..Len(tasks[r]) :
              /\ tasks[r][i].ticket_id = FormatTicketId(1)
              /\ tasks[r][j].ticket_id = FormatTicketId(3)

\* C7: in the response of an accepted batch every ticket's outcome is an
\* entry of exactly one of `results` and `errors`; successful + failed is the
\* number of tickets, successful is the length of results and failed the
\* length of errors.
C7_OutcomesPartitioned ==
    \A r \in Requests :
        BatchDone(r) =>
            LET ts == tasks[r]
                body == requests[r].response.body
            IN  /\ body.total_tickets = Len(requests[r].tickets)
                /\ body.successful + body.failed = Len(requests[r].tickets)
                /\ body.successful = Len(body.results)
                /\ body.failed = Len(body.errors)
                /\ \A i \in 1..Len(ts) :
                      (\E k \in 1..Len(body.results) : body.results[k] = ts[i].result)
                      # (\E k \in 1..Len(body.errors) : body.errors[k] = ts[i].result)

\* A batch has been answered with one success and two failures.
C7_Witness ==
    \E r \in Requests :
        /\ BatchDone(r)
        /\ requests[r].response.body.successful = 1
        /\ requests[r].response.body.failed = 2

\* The three classification fields of x lie in the Literal sets.
InEnums(x) ==
    /\ x.category \in Categories
    /\ x.priority \in Priorities
    /\ x.response_type \in ResponseTypes

\* C8 as stated: every result returned by the pipeline and every
\* TicketResponse returned by process_support_ticket, with or without a
\* priority_override, has category, priority and response_type in their
\* enumerated sets.
C8_AsStated ==
    \A x \in TaskRefs :
        LET t == Task(x)
        IN  /\ t.completed = Stages => InEnums(Prediction(t))
            /\ Answered(t) => InEnums(t.result)

\* C8 (amended): every result returned by the pipeline has category,
\* priority and response_type in their enumerated sets, and so has every
\* TicketResponse of a request without a priority_override or with an empty
\* one; with a non-empty priority_override, category and response_type are
\* in their sets and the priority is the override string, in the set or not.
C8_EnumsExceptOverride ==
    \A x \in TaskRefs :
        LET t == Task(x)
        IN  /\ t.completed = Stages => InEnums(Prediction(t))
            /\ Answered(t) =>
                  /\ t.result.category \in Categories
                  /\ t.result.response_type \in ResponseTypes
                  /\ IF Truthy(t.ticket.priority_override)
                     THEN t.result.priority = t.ticket.priority_override[1]
                     ELSE t.result.priority \in Priorities

\* POST /process-ticket has answered 200 with a priority outside the
\* enumeration, taken from the request's override.
C8_Witness ==
    \E r \in Requests :
        /\ requests[r].kind = "single"
        /\ requests[r].state = "done"
        /\ requests[r].response.status_code = 200
        /\ requests[r].tickets[1].priority_override = <<"Urgent">>
        /\ requests[r].response.body.priority = "Urgent"
        /\ requests[r].response.body.priority \notin Priorities

\* C9 as stated: whenever a request supplies priority_override, whatever the
\* string, the returned priority is that string.
C9_AsStated ==
    \A x \in TaskRefs :
        LET t == Task(x)
        IN  (Answered(t) /\ t.ticket.priority_override # <<>>) =>
                t.result.priority = t.ticket.priority_override[1]

\* C9 (amended): whenever a request supplies a non-empty priority_override
\* the returned priority is that string; without an override, or with the
\* empty string, it is the classified priority.  Either way each stage ran
\* once, the response was generated with the classified priority, and every
\* other field of the result is the pipeline's.
C9_OverrideUnlessEmpty ==
    \A x \in TaskRefs :
        LET t == Task(x)
            o == t.ticket.priority_override
        IN  Answered(t) =>
              /\ o \notin {<<>>, <<"">>} => t.result.priority = o[1]
              /\ o \in {<<>>, <<"">>} => t.result.priority = t.classification.priority
              /\ CalledStages(t) = Stages
              /\ t.calls[3].args.priority_level = t.classification.priority
              /\ t.result.category = t.classification.category
              /\ t.result.response_type = t.classification.response_type
              /\ t.result.generated_response = t.response.response
              /\ t.result.quality_score = t.quality.quality_score
              /\ t.result.escalation_needed = t.knowledge.escalation_needed

\* POST /process-ticket has answered a request whose override "Critical"
\* differs from the classified priority "High".
C9_Witness ==
    \E r \in Requests :
        /\ requests[r].kind = "single"
        /\ requests[r].state = "done"
        /\ requests[r].response.status_code = 200
        /\ requests[r].tickets[1].priority_override = <<"Critical">>
        /\ tasks[r][1].classification.priority = "High"
        /\ requests[r].response.body.priority = "Critical"

\* C10 as stated: every entry of a batch outcome carries the id of its
\* ticket: each success, and each failure entry together with its error.
C10_AsStated ==
    \A r \in Requests :
        BatchDone(r) =>
            LET body == requests[r].response.body
            IN  /\ \A k \in 1..Len(body.results) :
                      \E i \in 1..Len(tasks[r]) :
                          /\ ~Failed(tasks[r][i])
                          /\ body.results[k].ticket_id = tasks[r][i].ticket_id
                /\ \A k \in 1..Len(body.errors) :
                      /\ "ticket_id" \in DOMAIN body.errors[k]
                      /\ \E i \in 1..Len(tasks[r]) :
                          /\ Failed(tasks[r][i])
                          /\ body.errors[k].ticket_id = tasks[r][i].ticket_id

\* C10 (amended): each success of a batch outcome carries the id of the
\* ticket it came from; each failure entry carries the error and the
\* submitted body of the failing ticket (subject, message, customer_email,
\* priority_override), and no ticket id.
C10_FailuresCarryBody ==
    \A r \in Requests :
        BatchDone(r) =>
            LET body == requests[r].response.body
            IN  /\ \A k \in 1..Len(body.results) :
                      \E i \in 1..Len(tasks[r]) :
                          /\ ~Failed(tasks[r][i])
                          /\ body.results[k].ticket_id = tasks[r][i].ticket_id
                /\ \A k \in 1..Len(body.errors) :
                      /\ DOMAIN body.errors[k] = {"type", "error", "ticket"}
                      /\ \E i \in 1..Len(tasks[r]) :
                          /\ Failed(tasks[r][i])
                          /\ body.errors[k].ticket = requests[r].tickets[i]
                          /\ body.errors[k].error =
                                <<500, ": ", <<"Processing failed: ", tasks[r][i].error>> >>

\* A batch has been answered with a success and a failure; the failed
\* ticket had been given an id, which its failure entry does not hold.
C10_Witness ==
    \E r \in Requests :
        /\ BatchDone(r)
        /\ Len(requests[r].response.body.results) >= 1
        /\ Len(requests[r].response.body.errors) >= 1
        /\ \E i \in FailedPositions(r) :
              /\ tasks[r][i].ticket_id # <<>>
              /\ "ticket_id" \notin DOMAIN tasks[r][i].result

\* ------------------------------------------- examples/demo.py: full_system_demo
MaxDemoTickets == 3
MaxSummaries == 2

\* What one run of the support system contributes to `results`.
DemoResults ==
    [priority : {"Critical", "High", "Low"}, quality_score : {5, 8},
     escalation_needed : BOOLEAN]

RECURSIVE GCD(_, _)
GCD(a, b) == IF b = 0 THEN a ELSE GCD(b, a % b)

\* Python's true division: a quotient, or ZeroDivisionError.
Divide(num, den) ==
    IF den = 0 THEN [type |-> "ZeroDivisionError"]
    ELSE LET g == IF num = 0 THEN den ELSE GCD(num, den)
         IN  [type |-> "float", num |-> num \div g, den |-> den \div g]

RECURSIVE SumQuality(_)
SumQuality(results) ==
    IF results = <<>> THEN 0
    ELSE Head(results).quality_score + SumQuality(Tail(results))

AvgQuality(results) == Divide(SumQuality(results), Len(results))

HighPriority_HighOnly(results) ==
    Len(SelectSeq(results, LAMBDA r : r.priority = "High"))

HighPriority(results) ==
    Len(SelectSeq(results, LAMBDA r : r.priority \in {"Critical", "High"}))

Escalations(results) ==
    Len(SelectSeq(results, LAMBDA r : r.escalation_needed))

\* The summary lines of full_system_demo; the average is computed first.
Summary(results) ==
    IF AvgQuality(results).type = "ZeroDivisionError"
    THEN AvgQuality(results)
    ELSE [type |-> "summary",
          total_tickets |-> Len(results),
          avg_quality |-> AvgQuality(results),
          high_priority |-> HighPriority(results),
          escalations |-> Escalations(results)]

\* The demo starts with the loaded test tickets (their number is what
\* matters) and an empty result list.
InitDemo ==
    /\ InitApi
    /\ bench = NoValue
    /\ \E n \in 0..MaxDemoTickets :
          demo = [pc |-> "loop", test_tickets |-> n, results |-> <<>>,
                  calls |-> 0, summary |-> NoValue, summaries |-> 0,
                  error |-> NoValue]

\* One iteration of the loop: the support system answers a ticket.
DemoProcessTicket(result) ==
    /\ demo.pc = "loop"
    /\ Len(demo.results) < demo.test_tickets
    /\ demo' = [demo EXCEPT !.results = Append(@, result), !.calls = @ + 1]
    /\ UNCHANGED <<apiVars, info_reply, bench>>

\* The support system raises: the loop has no handler, the demo ends.
DemoPipelineRaises ==
    /\ demo.pc = "loop"
    /\ Len(demo.results) < demo.test_tickets
    /\ demo' = [demo EXCEPT !.pc = "failed", !.calls = @ + 1,
                            !.error = [type |-> "Exception"]]
    /\ UNCHANGED <<apiVars, info_reply, bench>>

\* The summary is computed from `results` (again, when it was computed
\* before).
DemoSummarize ==
    /\ \/ demo.pc = "loop" /\ Len(demo.results) = demo.test_tickets
       \/ demo.pc = "summarized" /\ demo.summaries < MaxSummaries
    /\ LET s == Summary(demo.results)
       IN  demo' = IF s.type = "summary"
                   THEN [demo EXCEPT !.pc = "summarized", !.summary = s,
                                     !.summaries = @ + 1]
                   ELSE [demo EXCEPT !.pc = "failed", !.error = s]
    /\ UNCHANGED <<apiVars, info_reply, bench>>

NextDemo ==
    \/ \E result \in DemoResults : DemoProcessTicket(result)
    \/ DemoPipelineRaises
    \/ DemoSummarize

SpecDemo == InitDemo /\ [][NextDemo]_vars

\* C11: summarising zero results fails with the dedicated EmptyBatchError,
\* raised by a guard before any division; it neither divides by zero nor
\* produces a summary.
C11_AsStated ==
    (demo # NoValue /\ demo.test_tickets = 0 /\ demo.pc # "loop")
        => (demo.pc = "failed" /\ demo.error.type = "EmptyBatchError")

\* C12: a summary of a non-empty result list counts the Critical and High
\* results, counts the results needing escalation, and averages the quality
\* scores (sum over number); computing it issues no call, changes nothing
\* but the summary, and computing it again gives the same summary.
C12_SummaryValues ==
    (demo # NoValue /\ demo.pc = "summarized") =>
        LET rs == demo.results
            n == Len(rs)
            sm == demo.summary
        IN  /\ n > 0
            /\ sm.total_tickets = n
            /\ sm.high_priority =
                  Cardinality({i \in 1..n : rs[i].priority \in {"Critical", "High"}})
            /\ sm.escalations =
                  Cardinality({i \in 1..n : rs[i].escalation_needed})
            /\ sm.avg_quality.den > 0
            /\ sm.avg_quality.num * n = SumQuality(rs) * sm.avg_quality.den

C12_SummarizeStep ==
    (demo # NoValue /\ demo'.pc = "summarized") =>
        /\ UNCHANGED <<apiVars, info_reply, bench>>
        /\ demo'.results = demo.results
        /\ demo'.calls = demo.calls
        /\ demo.pc = "summarized" => demo'.summary = demo.summary

C12_SummaryIsPure == []C12_SummaryValues /\ [][C12_SummarizeStep]_vars

C12_Witness ==
    /\ demo # NoValue
    /\ demo.pc = "summarized"
    /\ demo.summaries = 2
    /\ Len(demo.results) = 3
    /\ demo.summary.high_priority = 2
    /\ demo.summary.escalations = 1
    /\ demo.summary.avg_quality.den = 1
    /\ demo.summary.avg_quality.num = 7

\* ----------------------------------- /feedback, /health, /metrics and /
UnknownTicketId == <<"API", 9, 9, 9, 9, 9, 9>>

FeedbackBodies ==
    [ticket_id : {FormatTicketId(1), UnknownTicketId},
     response_quality : {9}, was_helpful : {TRUE}, comments : {<<>>}]

FeedbackReply_NoEcho(feedback) ==
    [message |-> "Feedback received", ticket_id |-> <<>>, status |-> "recorded"]

FeedbackReply(feedback) ==
    [message |-> "Feedback received", ticket_id |-> feedback.ticket_id,
     status |-> "recorded"]

HealthReply(counter) ==
    [status |-> "healthy", system |-> "DSPy Customer Support",
     model_loaded |-> TRUE, tickets_processed |-> counter]

MetricsReply(counter) ==
    [tickets_processed_today |-> counter, system_version |-> "1.0.0",
     dspy_optimized |-> TRUE, average_processing_time_ms |-> 2500,
     supported_categories |-> <<"Technical", "Billing", "Sales", "Feature_Request">>,
     supported_priorities |-> <<"Critical", "High", "Medium", "Low">>]

RootReply ==
    [message |-> "DSPy Customer Support API",
     description |-> "Production customer support powered by optimized DSPy models",
     version |-> "1.0.0", docs |-> "/docs"]

\* POST /feedback: the body is logged and acknowledged.
SubmitFeedback(feedback) ==
    /\ info_reply' = [type |-> "reply", endpoint |-> "feedback", request |-> feedback,
                      body |-> FeedbackReply(feedback)]
    /\ UNCHANGED <<apiVars, demo, bench>>

\* GET /health
HealthCheck ==
    /\ info_reply' = [type |-> "reply", endpoint |-> "health", request |-> NoValue,
                      body |-> HealthReply(ticket_counter)]
    /\ UNCHANGED <<apiVars, demo, bench>>

\* GET /metrics
GetMetrics ==
    /\ info_reply' = [type |-> "reply", endpoint |-> "metrics", request |-> NoValue,
                      body |-> MetricsReply(ticket_counter)]
    /\ UNCHANGED <<apiVars, demo, bench>>

\* GET /
Root ==
    /\ info_reply' = [type |-> "reply", endpoint |-> "root", request |-> NoValue,
                      body |-> RootReply]
    /\ UNCHANGED <<apiVars, demo, bench>>

\* The ticket traffic that runs beside the informational endpoints.
InfoTickets == {SupportTicket(<<>>)}
InfoBatches == {SampleBatch(2), SampleBatch(BatchSizeLimit + 1)}

NextInfo ==
    \/ \E r \in Requests, ticket \in InfoTickets : SubmitTicket(r, ticket)
    \/ \E r \in Requests, batch \in InfoBatches : RejectBatch(r, batch)
    \/ \E r \in Requests, batch \in InfoBatches : AcceptBatch(r, batch)
    \/ \E r \in Requests, i \in 1..MaxTickets : StartBatchTicket(r, i)
    \/ \E r \in Requests, i \in 1..MaxTickets :
          \E raw \in UNION {RawOutputs(s) : s \in StageSet} : StageReturn(r, i, raw)
    \/ \E r \in Requests, i \in 1..MaxTickets :
          StageRaise(r, i, "UpstreamError")
    \/ \E r \in Requests : TicketRespond(r)
    \/ \E r \in Requests, i \in 1..MaxTickets : FinishBatchTicket(r, i)
    \/ \E r \in Requests : BatchRespond(r)
    \/ \E feedback \in FeedbackBodies : SubmitFeedback(feedback)
    \/ HealthCheck
    \/ GetMetrics
    \/ Root

SpecInfo == Init /\ [][NextInfo]_vars

\* A step in which one of the informational endpoints answers.
InfoStep(endpoint) == info_reply' # info_reply /\ info_reply'.endpoint = endpoint

\* C13: POST /feedback returns an acknowledgement that echoes the ticket_id
\* of the body and leaves the whole server state as it was (counter, requests,
\* tickets, number of remote calls), whether or not the ticket_id names a
\* processed ticket.
C13_FeedbackStep ==
    InfoStep("feedback") =>
        /\ UNCHANGED apiVars
        /\ info_reply'.body.message = "Feedback received"
        /\ info_reply'.body.status = "recorded"
        /\ info_reply'.body.ticket_id = info_reply'.request.ticket_id
        /\ DOMAIN info_reply'.body = {"message", "ticket_id", "status"}

C13_FeedbackOnlyAcknowledges == [][C13_FeedbackStep]_vars

C13_Witness ==
    /\ info_reply.type = "reply"
    /\ info_reply.endpoint = "feedback"
    /\ info_reply.body.ticket_id = UnknownTicketId
    /\ ticket_counter >= 2
    /\ \E x \in TaskRefs : InFlight(Task(x))
    /\ \A x \in TaskRefs : Task(x).ticket_id # UnknownTicketId

\* The tickets that enter process_support_ticket in a step.
Entering ==
    {x \in Requests \X (1..MaxTickets) :
        /\ x[2] <= Len(tasks'[x[1]])
        /\ tasks'[x[1]][x[2]].ticket_id # <<>>
        /\ \/ x[2] > Len(tasks[x[1]])
           \/ tasks[x[1]][x[2]].ticket_id = <<>>}

\* The tickets that have entered process_support_ticket.
Started == {x \in TaskRefs : Task(x).ticket_id # <<>>}

\* The reply carries the counter's value c.
ReportsCounter(body, c) ==
    \E f \in DOMAIN body \cap {"tickets_processed", "tickets_processed_today"} :
        body[f] = c

\* The counter moves only when a ticket enters, by one, and the entering
\* ticket has issued no remote call before: its id is the new value and its
\* first call follows.
C17_EnterStep ==
    /\ Cardinality(Entering) <= 1
    /\ ticket_counter' = ticket_counter + Cardinality(Entering)
    /\ \A x \in Entering :
          /\ tasks'[x[1]][x[2]].ticket_id = FormatTicketId(ticket_counter')
          /\ x[2] <= Len(tasks[x[1]]) => tasks[x[1]][x[2]].calls = <<>>
          /\ Len(tasks'[x[1]][x[2]].calls) = 1

\* The counter is the number of started tickets, failed ones included, and
\* a ticket that has issued a call has been counted.
C17_CountsStarted ==
    /\ ticket_counter = Cardinality(Started)
    /\ \A x \in TaskRefs : Task(x).calls # <<>> => x \in Started
    /\ \A x \in TaskRefs : Failed(Task(x)) => x \in Started

\* C17 as stated: the counter grows by exactly 1 when a ticket starts, before
\* any remote call, never decreases, and GET /health, GET /metrics and GET /
\* each report its current value without changing it.
C17_AsStated ==
    [][/\ C17_EnterStep
       /\ \A e \in {"health", "metrics", "root"} :
             InfoStep(e) => /\ ticket_counter' = ticket_counter
                            /\ ReportsCounter(info_reply'.body, ticket_counter)]_vars

\* C17, amended: the counter grows by exactly 1 when a ticket starts (a
\* single request or a ticket of an accepted batch), before any remote call
\* and whatever the outcome; it equals the number of started tickets; GET
\* /health and GET /metrics report its current value, and GET /, whose reply
\* is static, does not; none of the three changes it.
C17_CounterCountsStarts ==
    /\ []C17_CountsStarted
    /\ [][/\ C17_EnterStep
          /\ \A e \in {"health", "metrics"} :
                InfoStep(e) => /\ ticket_counter' = ticket_counter
                               /\ ReportsCounter(info_reply'.body, ticket_counter)
          /\ InfoStep("root") => /\ ticket_counter' = ticket_counter
                                 /\ ~ReportsCounter(info_reply'.body, ticket_counter)]_vars

C17_Witness ==
    /\ info_reply.type = "reply"
    /\ info_reply.endpoint = "health"
    /\ info_reply.body.tickets_processed = 3
    /\ ticket_counter = 3
    /\ \E x \in TaskRefs : Failed(Task(x))
    /\ \E r \in Requests : requests[r].kind = "batch" /\ Len(tasks[r]) = 2
    /\ \E r \in Requests : requests[r].kind = "single"

\* ------------------------------------------------------ data flow of forward
\* The output forward has bound for a stage (NoValue before it returns).
OutputOf(t, stage) ==
    CASE stage = "classify" -> t.classification
      [] stage = "retrieve" -> t.knowledge
      [] stage = "respond"  -> t.response
      [] stage = "evaluate" -> t.quality

\* C14: the inputs of every stage are fields of the original ticket and
\* outputs of strictly earlier stages: Classify receives subject and message;
\* Retrieve only the classified category and the subject and message; Respond
\* the message, the classified category and priority, and Retrieve's solution
\* and escalation flag; Evaluate only the original message and Respond's
\* response.  While a stage's call is in flight, no output of that stage or
\* of a later one exists.
C14_StageInputs ==
    \A x \in TaskRefs :
        LET t == Task(x)
        IN  /\ \A k \in 1..Len(t.calls) :
                  LET c == t.calls[k]
                  IN  /\ c.stage = "classify" =>
                            c.args = [subject |-> t.ticket.subject,
                                      message |-> t.ticket.message]
                      /\ c.stage = "retrieve" =>
                            c.args = [category |-> OutputOf(t, "classify").category,
                                      issue_description |->
                                          <<t.ticket.subject, "\n", t.ticket.message>>]
                      /\ c.stage = "respond" =>
                            c.args =
                              [customer_message |-> t.ticket.message,
                               issue_category |-> OutputOf(t, "classify").category,
                               priority_level |-> OutputOf(t, "classify").priority,
                               solution_info |-> OutputOf(t, "retrieve").relevant_solution,
                               escalation_needed |->
                                   OutputOf(t, "retrieve").escalation_needed]
                      /\ c.stage = "evaluate" =>
                            c.args = [original_message |-> t.ticket.message,
                                      generated_response |->
                                          OutputOf(t, "respond").response]
            /\ t.pc \in StageSet =>
                  \A j \in StageIndex(t.pc)..Len(Stages) :
                      OutputOf(t, Stages[j]) = NoValue

C14_Witness ==
    \E x \in TaskRefs :
        /\ Answered(Task(x))
        /\ Len(Task(x).calls) = Len(Stages)
        /\ Task(x).calls[Len(Stages)].args.generated_response = Task(x).response.response

\* ------------------------------------------------- calls that do not return
\* The tickets of request r whose remote call is outstanding.
Outstanding(r) == {i \in 1..Len(tasks[r]) : tasks[r][i].pc \in StageSet}

\* A batch that was accepted (its semaphore and coroutines exist).
BatchAccepted(r) == requests[r].kind = "batch" /\ ~BatchRejected(r)

\* While a remote call of a batch's ticket is outstanding the ticket holds
\* its slot (every slot not free is held by a ticket inside the pipeline) and
\* the batch request has no response.
C15_OutstandingHolds ==
    \A r \in Requests :
        BatchAccepted(r) =>
            /\ semaphore[r] = SemaphoreSlots - InPipeline(r)
            /\ Outstanding(r) # {} =>
                  /\ requests[r].state = "running"
                  /\ requests[r].response = NoValue

\* While as many calls of a batch are outstanding as there are slots, no
\* waiting ticket of the batch starts.
C15_WaitingStep ==
    \A r \in Requests :
        (BatchAccepted(r) /\ Cardinality(Outstanding(r)) = SemaphoreSlots) =>
            \A i \in 1..Len(tasks[r]) :
                tasks[r][i].pc = "pending" =>
                    /\ tasks'[r][i] = tasks[r][i]
                    /\ ticket_counter' = ticket_counter

\* C15: nothing times out or cancels a remote call.  As long as a ticket's
\* call has not returned, the ticket keeps its slot and its batch has no
\* response, even when every other ticket of the batch is finished; as long
\* as every slot of a batch is held by such a ticket, none of the batch's
\* remaining tickets starts.
C15_NoTimeout == []C15_OutstandingHolds /\ [][C15_WaitingStep]_vars

\* One call is outstanding, every other ticket of the batch is finished, and
\* the batch is still unanswered.
C15_Witness ==
    \E r \in Requests :
        /\ Len(tasks[r]) = 3
        /\ Cardinality(Outstanding(r)) = 1
        /\ \A i \in 1..Len(tasks[r]) : i \notin Outstanding(r) => tasks[r][i].pc = "done"
        /\ semaphore[r] = SemaphoreSlots - 1
        /\ requests[r].state = "running"

\* ------------------------------------------------------------- termination
\* The steps the server takes by itself: the event loop resumes a coroutine
\* that can run, and a remote call returns or raises.
Progress ==
    \/ \E r \in Requests, i \in 1..MaxTickets : StartBatchTicket(r, i)
    \/ \E r \in Requests, i \in 1..MaxTickets :
          \E raw \in UNION {RawOutputs(s) : s \in StageSet} : StageReturn(r, i, raw)
    \/ \E r \in Requests, i \in 1..MaxTickets :
          StageRaise(r, i, "UpstreamError")
    \/ \E r \in Requests : TicketRespond(r)
    \/ \E r \in Requests, i \in 1..MaxTickets : FinishBatchTicket(r, i)
    \/ \E r \in Requests : BatchRespond(r)

\* Every remote call eventually returns or raises, and the event loop
\* eventually runs a coroutine that is ready.
\* Batches below, at and above the number of slots, and an oversize one.
FairBatches ==
    {SampleBatch(n) : n \in (SemaphoreSlots - 1)..(SemaphoreSlots + 1)}
        \cup {SampleBatch(BatchSizeLimit + 1)}

NextFair ==
    \/ \E r \in Requests, ticket \in InfoTickets : SubmitTicket(r, ticket)
    \/ \E r \in Requests, batch \in FairBatches : RejectBatch(r, batch)
    \/ \E r \in Requests, batch \in FairBatches : AcceptBatch(r, batch)
    \/ Progress

SpecFair == Init /\ [][NextFair]_vars /\ WF_vars(Progress)

\* How often the ticket entered the pipeline: the calls of its first stage.
Entries(t) == Cardinality({k \in 1..Len(t.calls) : t.calls[k].stage = Stages[1]})

\* When a batch is answered every ticket of it has entered the pipeline
\* exactly once and has left it, and every slot is free again.
C16_AllReleasedAtResponse ==
    \A r \in Requests :
        BatchDone(r) =>
            /\ semaphore[r] = SemaphoreSlots
            /\ Len(tasks[r]) = Len(requests[r].tickets)
            /\ \A i \in 1..Len(tasks[r]) :
                  /\ tasks[r][i].pc = "done"
                  /\ tasks[r][i].ticket_id # <<>>
                  /\ Entries(tasks[r][i]) = 1

\* C16: if every remote call eventually returns or raises, every accepted
\* batch eventually returns a response; by then each of its tickets has
\* entered the pipeline exactly once and every acquired slot is released,
\* whether the tickets succeeded or failed.
C16_BatchTerminates ==
    /\ []C16_AllReleasedAtResponse
    /\ \A r \in Requests : BatchAccepted(r) ~> BatchDone(r)

\* A batch with more tickets than slots is answered after failures.
C16_Witness ==
    \E r \in Requests :
        /\ BatchDone(r)
        /\ Len(tasks[r]) > SemaphoreSlots
        /\ Cardinality(FailedPositions(r)) >= 2
        /\ semaphore[r] = SemaphoreSlots

\* ------------------------------------------------------ scope of the limiter
\* The tickets inside the pipeline, over all requests of the process.
AllInPipeline == {x \in TaskRefs : InFlight(Task(x))}

\* Every accepted batch has a limiter of its own that counts its own
\* tickets only; a single-ticket request has none.
C18_OwnLimiter ==
    \A r \in Requests :
        /\ BatchAccepted(r) => semaphore[r] + InPipeline(r) = SemaphoreSlots
        /\ requests[r].kind = "single" => semaphore[r] = 0

\* Accepting a batch gives it a fresh limiter with every slot free, whatever
\* else is running; a single ticket enters without touching a limiter; and
\* a limiter moves only with a ticket of its own batch.
C18_LimiterStep ==
    \A r \in Requests :
        /\ (requests[r].kind = "none" /\ BatchAccepted(r)') =>
              /\ semaphore'[r] = SemaphoreSlots
              /\ \A q \in Requests \ {r} : semaphore'[q] = semaphore[q]
        /\ (requests[r].kind = "none" /\ requests'[r].kind = "single") =>
              /\ semaphore' = semaphore
              /\ InFlight(tasks'[r][1])
        /\ (requests[r].kind # "none" /\ semaphore'[r] # semaphore[r]) =>
              /\ tasks'[r] # tasks[r]
              /\ \A q \in Requests \ {r} : tasks'[q] = tasks[q]

\* C18: the limiter is created afresh for each batch request and is not used
\* by POST /process-ticket, so the bound holds within one batch only; with
\* concurrent requests the number of tickets inside the pipeline in the
\* whole process exceeds the number of slots (the witness).
C18_LimiterIsPerBatch == []C18_OwnLimiter /\ [][C18_LimiterStep]_vars

\* One batch fills all its slots while a ticket of another request is in
\* the pipeline too.
C18_Witness ==
    /\ Cardinality(AllInPipeline) > SemaphoreSlots
    /\ \E r \in Requests :
          /\ BatchAccepted(r)
          /\ InPipeline(r) = SemaphoreSlots
          /\ semaphore[r] = 0
    /\ \A r \in Requests : BatchAccepted(r) => InPipeline(r) <= SemaphoreSlots

\* ------------------------------------------------ order of a batch response
\* The k-th smallest position of a set of positions.
KthOf(S, k) == CHOOSE i \in S : Cardinality({j \in S : j < i}) = k - 1

\* C19: in a batch response `results` holds the outcomes of the successful
\* tickets and `errors` those of the failed tickets, each in the order the
\* tickets have in the request, in whatever order the tickets were
\* completed.
C19_RequestOrderKept ==
    \A r \in Requests :
        BatchDone(r) =>
            LET body == requests[r].response.body
                bad == FailedPositions(r)
                good == (1..Len(tasks[r])) \ bad
            IN  /\ Len(body.results) = Cardinality(good)
                /\ \A k \in 1..Len(body.results) :
                      body.results[k].ticket_id = tasks[r][KthOf(good, k)].ticket_id
                /\ Len(body.errors) = Cardinality(bad)
                /\ \A k \in 1..Len(body.errors) :
                      body.errors[k].ticket = requests[r].tickets[KthOf(bad, k)]

\* The second ticket failed first, then the third succeeded, and the first
\* ticket succeeded last.
C19_Witness ==
    \E r \in Requests :
        /\ BatchDone(r)
        /\ finish_order[r] = <<2, 3, 1>>
        /\ FailedPositions(r) = {2}
        /\ Len(requests[r].response.body.results) = 2

\* ------------------------- traditional/manual_prompting.py, scripts/benchmark.py
MaxBenchTickets == 2

\* A ticket of the sample file, as the set of keys it holds.
BenchTickets ==
    {{"id", "subject", "message"}, {"id", "message"}, {"subject", "message"}}

BenchTicketLists ==
    UNION {[1..n -> BenchTickets] : n \in 0..MaxBenchTickets}

\* What a chat completion does: it raises, or it returns a content that is
\* None or a text, held as its lines.  A line with a colon is a pair of the
\* words before the colon and the text after it.
ClassifyOutcomes ==
    {[kind |-> "raises"],
     [kind |-> "returns", content |-> NoValue],
     [kind |-> "returns",
      content |-> [type |-> "str",
                   lines |-> <<[text |-> "I cannot classify this"]>>]],
     [kind |-> "returns",
      content |-> [type |-> "str",
                   lines |-> <<[key |-> <<"Category">>, value |-> "Technical"],
                               [key |-> <<"Priority">>, value |-> "High"],
                               [key |-> <<"Response", "Type">>,
                                value |-> "Troubleshooting"]>>]]}

RespondOutcomes ==
    {[kind |-> "raises"],
     [kind |-> "returns", content |-> NoValue],
     [kind |-> "returns",
      content |-> [type |-> "str", lines |-> <<[text |-> "We are sorry"]>>]]}

\* str.lower on the words of the sample outputs.
Lower(word) ==
    CASE word = "Category" -> "category"
      [] word = "Priority" -> "priority"
      [] word = "Response" -> "response"
      [] word = "Type"     -> "type"
      [] OTHER             -> word

\* key.strip().lower().replace(' ', '_'): the lower-case words of the key,
\* which the underscores join.
NormalizeKey(key) == [k \in 1..Len(key) |-> Lower(key[k])]

\* The loop over the lines: a line with a colon sets one key of the dict.
RECURSIVE ParseLines(_, _)
ParseLines(lines, dict) ==
    IF lines = <<>> THEN dict
    ELSE LET line == Head(lines)
         IN  IF "key" \in DOMAIN line
             THEN ParseLines(Tail(lines),
                             (NormalizeKey(line.key) :> line.value) @@ dict)
             ELSE ParseLines(Tail(lines), dict)

\* The empty dict.
EmptyDict == [k \in {} |-> ""]

\* Variant of ClassifyTicketManual: the exception is not caught.
ClassifyTicketManual_Raises(outcome) ==
    IF outcome.kind = "raises" \/ outcome.content = NoValue
    THEN [type |-> "Exception"]
    ELSE [type |-> "dict", items |-> ParseLines(outcome.content.lines, EmptyDict)]

\* classify_ticket_manual: the parsed dict, or {"error": ...} when the call
\* or the parsing (None has no strip) raised.
ClassifyTicketManual(outcome) ==
    IF outcome.kind = "raises" \/ outcome.content = NoValue
    THEN [type |-> "dict",
          items |-> (<<"error">> :> "Classification failed")]
    ELSE [type |-> "dict", items |-> ParseLines(outcome.content.lines, EmptyDict)]

\* generate_response_manual: the content (a text or None), or the error
\* string.
GenerateResponseManual(outcome) ==
    IF outcome.kind = "raises"
    THEN [type |-> "str", lines |-> <<[text |-> "Response generation failed"]>>]
    ELSE outcome.content

\* dict.get(key, default)
DictGet(dict, key, default) ==
    IF key \in DOMAIN dict.items THEN dict.items[key] ELSE default

\* sum(1 for r in results if r['success'])
Successes(results) == Len(SelectSeq(results, LAMBDA r : r.success))

InitBench ==
    /\ InitApi
    /\ demo = NoValue
    /\ \E ts \in BenchTicketLists :
          bench = [pc |-> "traditional", step |-> "classify", i |-> 1,
                   test_tickets |-> ts, classification |-> NoValue,
                   trace |-> <<>>, traditional_results |-> <<>>,
                   dspy_results |-> <<>>, metrics |-> NoValue,
                   error |-> NoValue, written |-> FALSE, returned |-> NoValue]

\* The ticket the current loop is at.
BenchTicket == bench.test_tickets[bench.i]

\* The loop variable moves on; after the last ticket the next phase begins.
BenchAdvance(b, phase) ==
    IF b.i < Len(b.test_tickets)
    THEN [b EXCEPT !.i = @ + 1, !.step = "classify"]
    ELSE [b EXCEPT !.i = 1, !.step = "classify", !.pc = phase]

\* time.time() - start, in ticks of the clock: an iteration that made a
\* remote call takes time, one that failed before its call may take none.
BenchTimes(called) == IF called THEN {1, 2} ELSE {0, 1}

\* The except clause of either loop: it reads ticket['id'] again.
BenchExcept(b, results, phase, time) ==
    IF "id" \in b.test_tickets[b.i]
    THEN BenchAdvance([b EXCEPT ![results] =
                          Append(@, [ticket_id |-> b.i, success |-> FALSE,
                                     processing_time |-> time])],
                      phase)
    ELSE [b EXCEPT !.pc = "crashed", !.error = [type |-> "KeyError"]]

\* The loop is entered, or skipped when there is no ticket.
BenchInLoop(phase) ==
    /\ bench # NoValue
    /\ bench.pc = phase
    /\ bench.i <= Len(bench.test_tickets)

\* There is no ticket: both loops are skipped.
BenchSkipLoops ==
    /\ bench # NoValue
    /\ bench.pc = "traditional"
    /\ bench.test_tickets = <<>>
    /\ bench' = [bench EXCEPT !.pc = "metrics"]
    /\ UNCHANGED <<apiVars, info_reply, demo>>

\* ticket['subject'] or ticket['message'] is missing: KeyError in the try.
TradKeyError(time) ==
    /\ BenchInLoop("traditional")
    /\ bench.step = "classify"
    /\ ~({"subject", "message"} \subseteq BenchTicket)
    /\ time \in BenchTimes(FALSE)
    /\ bench' = BenchExcept(bench, "traditional_results", "dspy", time)
    /\ UNCHANGED <<apiVars, info_reply, demo>>

\* classify_ticket_manual is called and returns.
TradClassify(outcome) ==
    /\ BenchInLoop("traditional")
    /\ bench.step = "classify"
    /\ {"subject", "message"} \subseteq BenchTicket
    /\ LET c == ClassifyTicketManual(outcome)
       IN  bench' =
             IF c.type = "dict"
             THEN [bench EXCEPT !.step = "respond", !.classification = c,
                      !.trace = Append(@, [ticket |-> bench.i,
                                           classify |-> outcome.kind,
                                           classification |-> c])]
             ELSE BenchExcept(bench, "traditional_results", "dspy", 1)
    /\ UNCHANGED <<apiVars, info_reply, demo>>

\* generate_response_manual is called with the classification's category and
\* priority (or the defaults) and returns; the result is appended.
TradRespond(outcome, time) ==
    /\ BenchInLoop("traditional")
    /\ bench.step = "respond"
    /\ time \in BenchTimes(TRUE)
    /\ LET category == DictGet(bench.classification, <<"category">>, "Unknown")
           priority == DictGet(bench.classification, <<"priority">>, "Medium")
           response == GenerateResponseManual(outcome)
           called == [bench EXCEPT
                        !.trace[Len(bench.trace)] =
                            [ticket |-> bench.i,
                             classify |-> bench.trace[Len(bench.trace)].classify,
                             classification |-> bench.classification,
                             respond |-> outcome.kind,
                             category |-> category, priority |-> priority,
                             response |-> response]]
       IN  bench' =
             IF "id" \in BenchTicket
             THEN BenchAdvance(
                    [called EXCEPT !.traditional_results =
                        Append(@, [ticket_id |-> bench.i, success |-> TRUE,
                                   processing_time |-> time,
                                   classification |-> bench.classification])],
                    "dspy")
             ELSE BenchExcept(called, "traditional_results", "dspy", time)
    /\ UNCHANGED <<apiVars, info_reply, demo>>

\* The support system is called for a ticket: it answers, or it raises (or
\* a key of the ticket is missing), which the except clause records.
DspyProcess(raises, time) ==
    /\ BenchInLoop("dspy")
    /\ time \in BenchTimes({"subject", "message"} \subseteq BenchTicket)
    /\ bench' =
         IF raises \/ ~({"id", "subject", "message"} \subseteq BenchTicket)
         THEN BenchExcept(bench, "dspy_results", "metrics", time)
         ELSE BenchAdvance(
                [bench EXCEPT !.dspy_results =
                    Append(@, [ticket_id |-> bench.i, success |-> TRUE,
                               processing_time |-> time,
                               quality_score |-> 8])],
                "metrics")
    /\ UNCHANGED <<apiVars, info_reply, demo>>

\* A division that failed.
IsCrash(x) == x.type = "ZeroDivisionError"

\* a - b, a / b and a * 100 on quotients; a failed operand fails the result.
FracSub(a, b) ==
    IF IsCrash(a) \/ IsCrash(b) THEN [type |-> "ZeroDivisionError"]
    ELSE Divide(a.num * b.den - b.num * a.den, a.den * b.den)

FracDiv(a, b) ==
    IF IsCrash(a) \/ IsCrash(b) \/ b.num = 0 THEN [type |-> "ZeroDivisionError"]
    ELSE IF b.num > 0 THEN Divide(a.num * b.den, a.den * b.num)
    ELSE Divide(0 - a.num * b.den, 0 - a.den * b.num)

Percent(a) ==
    IF IsCrash(a) THEN a ELSE Divide(a.num * 100, a.den)

RECURSIVE SumTime(_)
SumTime(results) ==
    IF results = <<>> THEN 0
    ELSE Head(results).processing_time + SumTime(Tail(results))

\* The metrics of run_benchmark in the order of their computation.
ComputedMetrics(b) ==
    LET traditional_success_rate ==
            Divide(Successes(b.traditional_results), Len(b.traditional_results))
        dspy_success_rate ==
            Divide(Successes(b.dspy_results), Len(b.dspy_results))
        traditional_avg_time ==
            Divide(SumTime(b.traditional_results), Len(b.traditional_results))
        dspy_avg_time ==
            Divide(SumTime(b.dspy_results), Len(b.dspy_results))
        dspy_avg_quality ==
            Divide(SumQuality(SelectSeq(b.dspy_results, LAMBDA r : r.success)),
                   Successes(b.dspy_results))
        speed_improvement ==
            Percent(FracDiv(FracSub(traditional_avg_time, dspy_avg_time),
                            traditional_avg_time))
        reliability_improvement ==
            Percent(FracDiv(FracSub(dspy_success_rate, traditional_success_rate),
                            traditional_success_rate))
    IN  <<[name |-> "traditional_success_rate", value |-> traditional_success_rate],
          [name |-> "dspy_success_rate", value |-> dspy_success_rate],
          [name |-> "traditional_avg_time", value |-> traditional_avg_time],
          [name |-> "dspy_avg_time", value |-> dspy_avg_time],
          [name |-> "dspy_avg_quality", value |-> dspy_avg_quality],
          [name |-> "speed_improvement", value |-> speed_improvement],
          [name |-> "reliability_improvement", value |-> reliability_improvement]>>

\* The metrics computed before the first division by zero, by name.
MetricsBefore(computed, crashed) ==
    LET before == {k \in 1..Len(computed) : \A c \in crashed : k < c}
    IN  [n \in {computed[k].name : k \in before} |->
            (CHOOSE m \in {computed[k] : k \in before} : m.name = n).value]

\* The end of run_benchmark: the first division by zero ends the run;
\* otherwise benchmark_results.json is written and the results are returned.
BenchFinish(b, computed) ==
    LET crashed == {k \in 1..Len(computed) : IsCrash(computed[k].value)}
        metrics == MetricsBefore(computed, crashed)
    IN  IF crashed = {}
        THEN [b EXCEPT !.pc = "done", !.metrics = metrics, !.written = TRUE,
                       !.returned = [type |-> "dict", metrics |-> metrics]]
        ELSE IF 1 \in crashed
        THEN [b EXCEPT !.pc = "crashed", !.error = [type |-> "ZeroDivisionError"]]
        ELSE [b EXCEPT !.pc = "crashed", !.metrics = metrics,
                       !.error = [type |-> "ZeroDivisionError"]]

\* Both loops are over: the metrics are computed one after the other.
BenchMetrics ==
    /\ bench # NoValue
    /\ bench.pc = "metrics"
    /\ bench' = BenchFinish(bench, ComputedMetrics(bench))
    /\ UNCHANGED <<apiVars, info_reply, demo>>

NextBench ==
    \/ BenchSkipLoops
    \/ \E time \in BenchTimes(FALSE) : TradKeyError(time)
    \/ \E outcome \in ClassifyOutcomes : TradClassify(outcome)
    \/ \E outcome \in RespondOutcomes, time \in BenchTimes(TRUE) :
          TradRespond(outcome, time)
    \/ \E raises \in BOOLEAN, time \in BenchTimes(TRUE) \cup BenchTimes(FALSE) :
          DspyProcess(raises, time)
    \/ BenchMetrics

SpecBench == InitBench /\ [][NextBench]_vars

\* The ticket at position k holds id, subject and message.
CompleteTicket(k) == {"id", "subject", "message"} \subseteq bench.test_tickets[k]

\* C20: on the traditional path a failing remote call becomes a value and is
\* never raised: a failed classification is a dict with the single key
\* `error`, a failed generation is an error string; after a failed
\* classification the response is still requested, with category 'Unknown'
\* and priority 'Medium'; the benchmark records the ticket with success =
\* true, so that every ticket holding id, subject and message is a success
\* and the traditional success rate, whenever every ticket holds them, is
\* 100%.
C20_FailuresBecomeValues ==
    bench # NoValue =>
        /\ \A k \in 1..Len(bench.trace) :
              LET h == bench.trace[k]
              IN  /\ h.classify = "raises" =>
                        DOMAIN h.classification.items = {<<"error">>}
                  /\ "respond" \in DOMAIN h =>
                        /\ h.classify = "raises" =>
                              h.category = "Unknown" /\ h.priority = "Medium"
                        /\ h.respond = "raises" =>
                              /\ h.response.type = "str"
                              /\ h.response.lines =
                                    <<[text |-> "Response generation failed"]>>
                        /\ CompleteTicket(h.ticket) =>
                              \E j \in 1..Len(bench.traditional_results) :
                                  /\ bench.traditional_results[j].ticket_id = h.ticket
                                  /\ bench.traditional_results[j].success
        /\ \A j \in 1..Len(bench.traditional_results) :
              CompleteTicket(bench.traditional_results[j].ticket_id) =>
                  bench.traditional_results[j].success
        /\ (\A k \in 1..Len(bench.test_tickets) : CompleteTicket(k)) =>
              /\ bench.error # [type |-> "KeyError"]
              /\ bench.pc # "traditional" =>
                    /\ Len(bench.traditional_results) = Len(bench.test_tickets)
                    /\ Successes(bench.traditional_results) = Len(bench.test_tickets)
              /\ bench.metrics # NoValue =>
                    bench.metrics.traditional_success_rate =
                        [type |-> "float", num |-> 1, den |-> 1]

\* Both calls of the first ticket failed, the second ticket was classified,
\* and the benchmark reports its rates.
C20_Witness ==
    /\ bench # NoValue
    /\ bench.pc = "done"
    /\ Len(bench.test_tickets) = 2
    /\ \A k \in 1..2 : CompleteTicket(k)
    /\ bench.trace[1].classify = "raises"
    /\ bench.trace[1].respond = "raises"
    /\ bench.trace[1].category = "Unknown"
    /\ bench.trace[2].category = "Technical"
    /\ bench.metrics.traditional_success_rate.num = 1

\* -------------------------------------------------- the benchmark's ratios
\* A loop's list holds one record per ticket, in the order of the tickets.
OnePerTicket(results) ==
    /\ Len(results) = Len(bench.test_tickets)
    /\ \A j \in 1..Len(results) : results[j].ticket_id = j

\* Both loops are over (the run is at its metrics, or past them).
LoopsOver ==
    \/ bench.pc \in {"metrics", "done"}
    \/ bench.pc = "crashed" /\ bench.error = [type |-> "ZeroDivisionError"]

\* A zero denominator ends the run: with no ticket, with no successful DSPy
\* ticket or with a traditional success rate of 0 the metrics end in a
\* ZeroDivisionError, nothing is returned and no file is written.
C21_ZeroDenominatorStep ==
    (/\ bench # NoValue
     /\ bench.pc = "metrics"
     /\ \/ bench.test_tickets = <<>>
        \/ Successes(bench.dspy_results) = 0
        \/ Successes(bench.traditional_results) = 0)
    => /\ bench'.pc = "crashed"
       /\ bench'.error = [type |-> "ZeroDivisionError"]
       /\ ~bench'.written
       /\ bench'.returned = NoValue

\* A run that ended in an exception returned nothing and wrote nothing; a
\* run that returned had no zero denominator.
C21_Outcomes ==
    bench # NoValue =>
        /\ bench.pc = "crashed" => ~bench.written /\ bench.returned = NoValue
        /\ bench.pc = "done" =>
              /\ bench.written /\ bench.returned # NoValue
              /\ bench.test_tickets # <<>>
              /\ Successes(bench.dspy_results) > 0
              /\ Successes(bench.traditional_results) > 0

\* A ticket lacking its subject or message fails in both loops and is
\* recorded with success = false.
C21_FailuresRecorded ==
    \A j \in 1..Len(bench.test_tickets) :
        ~CompleteTicket(j) =>
            /\ j <= Len(bench.traditional_results) =>
                  ~bench.traditional_results[j].success
            /\ j <= Len(bench.dspy_results) => ~bench.dspy_results[j].success

\* C21 as stated: the ratios are unguarded, so that a zero denominator ends
\* the run with a division by zero, without result and without file; a
\* failure of a ticket in either loop is recorded with success = false and
\* never stops the remaining tickets, so every run gets to its metrics with
\* one record per ticket in both lists.
C21_AsStated ==
    /\ [](bench # NoValue =>
            /\ C21_Outcomes
            /\ bench.pc = "crashed" => LoopsOver
            /\ LoopsOver =>
                  /\ OnePerTicket(bench.traditional_results)
                  /\ OnePerTicket(bench.dspy_results)
                  /\ C21_FailuresRecorded)
    /\ [][C21_ZeroDenominatorStep]_vars

\* Every ticket of the list holds an id.
AllHaveId == \A k \in 1..Len(bench.test_tickets) : "id" \in bench.test_tickets[k]

\* C21 for ticket lists in which every ticket holds an id: there the claim
\* holds as stated.  A failing ticket without an id ends the run with the
\* KeyError its except clause raises, before the remaining tickets and the
\* metrics.
C21_UnguardedRatios ==
    /\ [](bench # NoValue =>
            /\ C21_Outcomes
            /\ (AllHaveId /\ bench.pc = "crashed") => LoopsOver
            /\ (~AllHaveId /\ bench.pc = "crashed") =>
                  bench.error = [type |-> "KeyError"]
            /\ LoopsOver =>
                  /\ AllHaveId
                  /\ OnePerTicket(bench.traditional_results)
                  /\ OnePerTicket(bench.dspy_results)
                  /\ C21_FailuresRecorded)
    /\ [][C21_ZeroDenominatorStep]_vars

\* The traditional loop succeeded for both tickets, the DSPy loop failed for
\* both and recorded them, and the average quality divided by zero.
C21_Witness ==
    /\ bench # NoValue
    /\ bench.pc = "crashed"
    /\ bench.error = [type |-> "ZeroDivisionError"]
    /\ Len(bench.test_tickets) = 2
    /\ Successes(bench.traditional_results) = 2
    /\ Len(bench.dspy_results) = 2
    /\ Successes(bench.dspy_results) = 0
    /\ DOMAIN bench.metrics = {"traditional_success_rate", "dspy_success_rate",
                               "traditional_avg_time", "dspy_avg_time"}
    /\ ~bench.written

====
